---- MODULE Spec2Model ----
(***************************************************************************)
(* Node get functions of Mini-XML (mxml-get.c).                            *)
(*                                                                         *)
(* The state is a document tree owned by the tree-management code (heap),  *)
(* the last accessor call made by a caller (call), the value it returned   *)
(* (ret) and the int the caller handed to mxmlGetText by address (flag).   *)
(* Every accessor is one action: it picks its arguments, evaluates the     *)
(* function exactly as the C code does, and records the result.            *)
(*                                                                         *)
(* Representation of C values:                                             *)
(*   mxml_node_t *  : a node id in Nodes, or NULL                          *)
(*   const char *   : [null |-> BOOLEAN, str |-> sequence of characters]   *)
(*   void *         : a handle number, NULL for the null pointer           *)
(*   double         : an integer number of tenths (15 stands for 1.5)      *)
(*   node->value    : a record holding only the active member of the union *)
(***************************************************************************)
EXTENDS Integers, Sequences, FiniteSets, TLC

VARIABLES heap, call, ret, flag

vars == <<heap, call, ret, flag>>

----------------------------------------------------------------------------
(* Bounds of the model *)

MaxNodes == 3        \* nodes in the document tree
MaxPayload == 1      \* payload variants: 0 stores the default values
MaxSuffix == 2       \* characters appended to a prefix of the CDATA marker

----------------------------------------------------------------------------
(* C values *)

NULL == 0

MXML_TYPE_IGNORE  == "MXML_TYPE_IGNORE"
MXML_TYPE_ELEMENT == "MXML_TYPE_ELEMENT"
MXML_TYPE_INTEGER == "MXML_TYPE_INTEGER"
MXML_TYPE_OPAQUE  == "MXML_TYPE_OPAQUE"
MXML_TYPE_REAL    == "MXML_TYPE_REAL"
MXML_TYPE_TEXT    == "MXML_TYPE_TEXT"
MXML_TYPE_CUSTOM  == "MXML_TYPE_CUSTOM"

NodeTypes == {MXML_TYPE_ELEMENT, MXML_TYPE_INTEGER, MXML_TYPE_OPAQUE,
              MXML_TYPE_REAL, MXML_TYPE_TEXT, MXML_TYPE_CUSTOM}

Nodes == 1..MaxNodes
NodePtrs == Nodes \cup {NULL}

NullStr == [null |-> TRUE, str |-> <<>>]
Str(s) == [null |-> FALSE, str |-> s]

\* p + k for a non-null const char *p with k <= strlen(p)
PtrAdd(p, k) == [null |-> FALSE, str |-> SubSeq(p.str, k + 1, Len(p.str))]

NUL == "NUL"

\* the character p[i - 1] of the C string p; the terminator follows the text
CharAt(p, i) == IF i <= Len(p.str) THEN p.str[i] ELSE NUL

Code(c) ==
  CASE c = NUL -> 0
    [] c = "!" -> 33
    [] c = "A" -> 65
    [] c = "C" -> 67
    [] c = "D" -> 68
    [] c = "T" -> 84
    [] c = "[" -> 91
    [] c = "]" -> 93
    [] c = "a" -> 97
    [] c = "b" -> 98
    [] c = "c" -> 99
    [] c = "d" -> 100
    [] c = "e" -> 101
    [] c = "f" -> 102
    [] c = "h" -> 104
    [] c = "l" -> 108
    [] c = "o" -> 111
    [] c = "t" -> 116

RECURSIVE strncmpFrom(_, _, _, _)
strncmpFrom(s1, s2, i, n) ==
  IF i > n THEN 0
  ELSE LET c1 == CharAt(s1, i)
           c2 == CharAt(s2, i)
       IN  IF c1 # c2 THEN Code(c1) - Code(c2)
           ELSE IF c1 = NUL THEN 0
           ELSE strncmpFrom(s1, s2, i + 1, n)

strncmp(s1, s2, n) == strncmpFrom(s1, s2, 1, n)

CDATAMarker == Str(<<"!", "[", "C", "D", "A", "T", "A", "[">>)

----------------------------------------------------------------------------
(* The accessors, mxml-get.c *)

mxmlGetCDATA_n7(node) ==
  IF node = NULL \/ heap[node].type # MXML_TYPE_ELEMENT
     \/ strncmp(heap[node].value.element.name, CDATAMarker, 7) # 0
  THEN NullStr
  ELSE PtrAdd(heap[node].value.element.name, 8)

mxmlGetCDATA(node) ==
  IF node = NULL \/ heap[node].type # MXML_TYPE_ELEMENT
     \/ strncmp(heap[node].value.element.name, CDATAMarker, 8) # 0
  THEN NullStr
  ELSE PtrAdd(heap[node].value.element.name, 8)

mxmlGetCustom_last(node) ==
  IF node = NULL THEN NULL
  ELSE IF heap[node].type = MXML_TYPE_CUSTOM
  THEN heap[node].value.custom.data
  ELSE IF heap[node].type = MXML_TYPE_ELEMENT /\ heap[node].last_child # NULL
          /\ heap[heap[node].last_child].type = MXML_TYPE_CUSTOM
  THEN heap[heap[node].last_child].value.custom.data
  ELSE NULL

mxmlGetCustom(node) ==
  IF node = NULL THEN NULL
  ELSE IF heap[node].type = MXML_TYPE_CUSTOM
  THEN heap[node].value.custom.data
  ELSE IF heap[node].type = MXML_TYPE_ELEMENT /\ heap[node].child # NULL
          /\ heap[heap[node].child].type = MXML_TYPE_CUSTOM
  THEN heap[heap[node].child].value.custom.data
  ELSE NULL

mxmlGetElement_child(node) ==
  IF node = NULL THEN NullStr
  ELSE IF heap[node].type = MXML_TYPE_ELEMENT
  THEN heap[node].value.element.name
  ELSE IF heap[node].child # NULL
          /\ heap[heap[node].child].type = MXML_TYPE_ELEMENT
  THEN heap[heap[node].child].value.element.name
  ELSE NullStr

mxmlGetElement(node) ==
  IF node = NULL \/ heap[node].type # MXML_TYPE_ELEMENT
  THEN NullStr
  ELSE heap[node].value.element.name

mxmlGetFirstChild_anytype(node) ==
  IF node = NULL THEN NULL ELSE heap[node].child

mxmlGetFirstChild(node) ==
  IF node = NULL \/ heap[node].type # MXML_TYPE_ELEMENT
  THEN NULL
  ELSE heap[node].child

RECURSIVE mxmlGetInteger_deep(_)
mxmlGetInteger_deep(node) ==
  IF node = NULL THEN 0
  ELSE IF heap[node].type = MXML_TYPE_INTEGER
  THEN heap[node].value.integer
  ELSE IF heap[node].type = MXML_TYPE_ELEMENT /\ heap[node].child # NULL
  THEN mxmlGetInteger_deep(heap[node].child)
  ELSE 0

mxmlGetInteger(node) ==
  IF node = NULL THEN 0
  ELSE IF heap[node].type = MXML_TYPE_INTEGER
  THEN heap[node].value.integer
  ELSE IF heap[node].type = MXML_TYPE_ELEMENT /\ heap[node].child # NULL
          /\ heap[heap[node].child].type = MXML_TYPE_INTEGER
  THEN heap[heap[node].child].value.integer
  ELSE 0

mxmlGetLastChild(node) ==
  IF node = NULL \/ heap[node].type # MXML_TYPE_ELEMENT
  THEN NULL
  ELSE heap[node].last_child

mxmlGetNextSibling(node) ==
  IF node = NULL THEN NULL ELSE heap[node].next

mxmlGetOpaque_childfirst(node) ==
  IF node = NULL THEN NullStr
  ELSE IF heap[node].child # NULL
          /\ heap[heap[node].child].type = MXML_TYPE_OPAQUE
  THEN heap[heap[node].child].value.opaque
  ELSE IF heap[node].type = MXML_TYPE_OPAQUE
  THEN heap[node].value.opaque
  ELSE NullStr

mxmlGetOpaque(node) ==
  IF node = NULL THEN NullStr
  ELSE IF heap[node].type = MXML_TYPE_OPAQUE
  THEN heap[node].value.opaque
  ELSE IF heap[node].type = MXML_TYPE_ELEMENT /\ heap[node].child # NULL
          /\ heap[heap[node].child].type = MXML_TYPE_OPAQUE
  THEN heap[heap[node].child].value.opaque
  ELSE NullStr

mxmlGetParent(node) ==
  IF node = NULL THEN NULL ELSE heap[node].parent

mxmlGetPrevSibling(node) ==
  IF node = NULL THEN NULL ELSE heap[node].prev

\* a getter that also converts integer nodes
mxmlGetReal_numeric(node) ==
  IF node = NULL THEN 0
  ELSE IF heap[node].type = MXML_TYPE_REAL
  THEN heap[node].value.real
  ELSE IF heap[node].type = MXML_TYPE_INTEGER
  THEN 10 * heap[node].value.integer
  ELSE IF heap[node].type = MXML_TYPE_ELEMENT /\ heap[node].child # NULL
          /\ heap[heap[node].child].type = MXML_TYPE_REAL
  THEN heap[heap[node].child].value.real
  ELSE 0

mxmlGetReal(node) ==
  IF node = NULL THEN 0
  ELSE IF heap[node].type = MXML_TYPE_REAL
  THEN heap[node].value.real
  ELSE IF heap[node].type = MXML_TYPE_ELEMENT /\ heap[node].child # NULL
          /\ heap[heap[node].child].type = MXML_TYPE_REAL
  THEN heap[heap[node].child].value.real
  ELSE 0

\* *whitespace = v when the caller passed a non-null pointer (whitespace),
\* otherwise the caller's int (cell) is not touched
Store(whitespace, cell, v) ==
  IF whitespace THEN [written |-> TRUE, value |-> v] ELSE cell

\* the mismatch path returns without writing the flag
mxmlGetText_nowrite(node, whitespace, cell) ==
  IF node = NULL
  THEN [ret |-> NullStr, flag |-> Store(whitespace, cell, 0)]
  ELSE IF heap[node].type = MXML_TYPE_TEXT
  THEN [ret  |-> heap[node].value.text.string,
        flag |-> Store(whitespace, cell, heap[node].value.text.whitespace)]
  ELSE IF heap[node].type = MXML_TYPE_ELEMENT /\ heap[node].child # NULL
          /\ heap[heap[node].child].type = MXML_TYPE_TEXT
  THEN [ret  |-> heap[heap[node].child].value.text.string,
        flag |-> Store(whitespace, cell,
                       heap[heap[node].child].value.text.whitespace)]
  ELSE [ret |-> NullStr, flag |-> cell]

\* result: the returned string and the caller's int after the call
mxmlGetText(node, whitespace, cell) ==
  IF node = NULL
  THEN [ret |-> NullStr, flag |-> Store(whitespace, cell, 0)]
  ELSE IF heap[node].type = MXML_TYPE_TEXT
  THEN [ret  |-> heap[node].value.text.string,
        flag |-> Store(whitespace, cell, heap[node].value.text.whitespace)]
  ELSE IF heap[node].type = MXML_TYPE_ELEMENT /\ heap[node].child # NULL
          /\ heap[heap[node].child].type = MXML_TYPE_TEXT
  THEN [ret  |-> heap[heap[node].child].value.text.string,
        flag |-> Store(whitespace, cell,
                       heap[heap[node].child].value.text.whitespace)]
  ELSE [ret |-> NullStr, flag |-> Store(whitespace, cell, 0)]

\* the sentinel of a build whose enumeration starts at the element type
mxmlGetType_zero(node) ==
  IF node = NULL THEN MXML_TYPE_ELEMENT ELSE heap[node].type

mxmlGetType(node) ==
  IF node = NULL THEN MXML_TYPE_IGNORE ELSE heap[node].type

mxmlGetUserData(node) ==
  IF node = NULL THEN NULL ELSE heap[node].user_data

----------------------------------------------------------------------------
(* The document trees the accessors are called on *)

Min(S) == CHOOSE x \in S : \A y \in S : x <= y
Max(S) == CHOOSE x \in S : \A y \in S : y <= x

\* parent of every node: node 1 is the root; either every later node was
\* added under the root, or each under the node created just before it
Shapes ==
  {p \in [Nodes -> NodePtrs] :
     /\ p[1] = NULL
     /\ \/ \A i \in Nodes \ {1} : p[i] = 1
        \/ \A i \in Nodes \ {1} : p[i] = i - 1}

\* children are linked in the order they were added, at the tail
Children(p, n) == {c \in Nodes : p[c] = n}

FirstOf(S) == IF S = {} THEN NULL ELSE Min(S)
LastOf(S) == IF S = {} THEN NULL ELSE Max(S)

Letters == <<"a", "b", "c", "d", "e", "f">>
Letter(i) == Letters[((i - 1) % Len(Letters)) + 1]

\* v copies of the node's letter; the empty string for v = 0
Word(i, v) == Str([k \in 1..v |-> Letter(i)])

Handle(i, v) == IF v = 0 THEN NULL ELSE 100 * v + i

ElementNames ==
  << <<"f", "o", "o">>,
     <<"!", "[", "C", "D", "A", "T", "A", "[", "h", "e", "l", "l", "o", "]", "]">>,
     <<"!", "[", "c", "d", "a", "t", "a", "[", "h", "e", "l", "l", "o">> >>

Name(i, v) == ElementNames[((i + v) % Len(ElementNames)) + 1]

SuffixChars == {"h", "c", "]"}
Suffixes == UNION {[1..n -> SuffixChars] : n \in 0..MaxSuffix}

\* every prefix of the CDATA marker followed by a short suffix
CDATANames ==
  {SubSeq(CDATAMarker.str, 1, k) \o s : k \in 0..Len(CDATAMarker.str), s \in Suffixes}

\* the active member of node->value for a node of type ty
Value(i, ty, name, v) ==
  CASE ty = MXML_TYPE_ELEMENT -> [element |-> [name |-> Str(name)]]
    [] ty = MXML_TYPE_INTEGER -> [integer |-> v * i]
    [] ty = MXML_TYPE_REAL    -> [real |-> 5 * v * i]
    [] ty = MXML_TYPE_OPAQUE  -> [opaque |-> Word(i, v)]
    [] ty = MXML_TYPE_TEXT    ->
         [text |-> [string |-> Word(i, 2 * v), whitespace |-> (v * i) % 2]]
    [] ty = MXML_TYPE_CUSTOM  -> [custom |-> [data |-> Handle(i, v)]]

Build(p, ty, names, v) ==
  [n \in Nodes |->
     [type       |-> ty[n],
      value      |-> Value(n, ty[n], names[n], v),
      parent     |-> p[n],
      child      |-> FirstOf(Children(p, n)),
      last_child |-> LastOf(Children(p, n)),
      next       |-> IF p[n] = NULL THEN NULL
                     ELSE FirstOf({c \in Children(p, p[n]) : c > n}),
      prev       |-> IF p[n] = NULL THEN NULL
                     ELSE LastOf({c \in Children(p, p[n]) : c < n}),
      user_data  |-> Handle(MaxNodes + n, v)]]

\* the types of three consecutive nodes are chosen freely, those of later
\* nodes repeat them in creation order
Typings ==
  {[n \in Nodes |-> t[((n - 1) % 3) + 1]] : t \in [1..3 -> NodeTypes]}

\* trees of every shape and every typing
Trees ==
  {Build(p, ty, [n \in Nodes |-> Name(n, v)], v) :
     p \in Shapes, ty \in Typings, v \in 0..MaxPayload}

\* a root element of every name in CDATANames over element children
NamedTrees ==
  {Build([n \in Nodes |-> IF n = 1 THEN NULL ELSE 1],
         [n \in Nodes |-> MXML_TYPE_ELEMENT],
         [n \in Nodes |-> IF n = 1 THEN nm ELSE Name(n, 0)],
         MaxPayload) : nm \in CDATANames}

----------------------------------------------------------------------------
(* The calls *)

Call(op, node, whitespace) ==
  [op |-> op, node |-> node, whitespace |-> whitespace]

\* the caller's int before the call: nothing stored in it yet
Unwritten == [written |-> FALSE, value |-> 0]

Init ==
  /\ heap \in Trees \cup NamedTrees
  /\ call = Call("none", NULL, FALSE)
  /\ ret = NULL
  /\ flag = Unwritten

Call_mxmlGetCDATA ==
  \E node \in NodePtrs :
    /\ call' = Call("mxmlGetCDATA", node, FALSE)
    /\ ret' = mxmlGetCDATA(node)
    /\ flag' = Unwritten
    /\ UNCHANGED heap

Call_mxmlGetCustom ==
  \E node \in NodePtrs :
    /\ call' = Call("mxmlGetCustom", node, FALSE)
    /\ ret' = mxmlGetCustom(node)
    /\ flag' = Unwritten
    /\ UNCHANGED heap

Call_mxmlGetElement ==
  \E node \in NodePtrs :
    /\ call' = Call("mxmlGetElement", node, FALSE)
    /\ ret' = mxmlGetElement(node)
    /\ flag' = Unwritten
    /\ UNCHANGED heap

Call_mxmlGetFirstChild ==
  \E node \in NodePtrs :
    /\ call' = Call("mxmlGetFirstChild", node, FALSE)
    /\ ret' = mxmlGetFirstChild(node)
    /\ flag' = Unwritten
    /\ UNCHANGED heap

Call_mxmlGetInteger ==
  \E node \in NodePtrs :
    /\ call' = Call("mxmlGetInteger", node, FALSE)
    /\ ret' = mxmlGetInteger(node)
    /\ flag' = Unwritten
    /\ UNCHANGED heap

Call_mxmlGetLastChild ==
  \E node \in NodePtrs :
    /\ call' = Call("mxmlGetLastChild", node, FALSE)
    /\ ret' = mxmlGetLastChild(node)
    /\ flag' = Unwritten
    /\ UNCHANGED heap

Call_mxmlGetNextSibling ==
  \E node \in NodePtrs :
    /\ call' = Call("mxmlGetNextSibling", node, FALSE)
    /\ ret' = mxmlGetNextSibling(node)
    /\ flag' = Unwritten
    /\ UNCHANGED heap

Call_mxmlGetOpaque ==
  \E node \in NodePtrs :
    /\ call' = Call("mxmlGetOpaque", node, FALSE)
    /\ ret' = mxmlGetOpaque(node)
    /\ flag' = Unwritten
    /\ UNCHANGED heap

Call_mxmlGetParent ==
  \E node \in NodePtrs :
    /\ call' = Call("mxmlGetParent", node, FALSE)
    /\ ret' = mxmlGetParent(node)
    /\ flag' = Unwritten
    /\ UNCHANGED heap

Call_mxmlGetPrevSibling ==
  \E node \in NodePtrs :
    /\ call' = Call("mxmlGetPrevSibling", node, FALSE)
    /\ ret' = mxmlGetPrevSibling(node)
    /\ flag' = Unwritten
    /\ UNCHANGED heap

Call_mxmlGetReal ==
  \E node \in NodePtrs :
    /\ call' = Call("mxmlGetReal", node, FALSE)
    /\ ret' = mxmlGetReal(node)
    /\ flag' = Unwritten
    /\ UNCHANGED heap

\* a getter that consumes the flag it reports
Call_mxmlGetText_consume ==
  \E node \in NodePtrs, whitespace \in BOOLEAN :
    /\ call' = Call("mxmlGetText", node, whitespace)
    /\ ret' = mxmlGetText(node, whitespace, Unwritten).ret
    /\ flag' = mxmlGetText(node, whitespace, Unwritten).flag
    /\ heap' = IF node # NULL /\ heap[node].type = MXML_TYPE_TEXT
               THEN [heap EXCEPT ![node].value.text.whitespace = 0]
               ELSE heap

\* whitespace: the caller passed the address of its int, not NULL
Call_mxmlGetText ==
  \E node \in NodePtrs, whitespace \in BOOLEAN :
    /\ call' = Call("mxmlGetText", node, whitespace)
    /\ ret' = mxmlGetText(node, whitespace, Unwritten).ret
    /\ flag' = mxmlGetText(node, whitespace, Unwritten).flag
    /\ UNCHANGED heap

Call_mxmlGetType ==
  \E node \in NodePtrs :
    /\ call' = Call("mxmlGetType", node, FALSE)
    /\ ret' = mxmlGetType(node)
    /\ flag' = Unwritten
    /\ UNCHANGED heap

Call_mxmlGetUserData ==
  \E node \in NodePtrs :
    /\ call' = Call("mxmlGetUserData", node, FALSE)
    /\ ret' = mxmlGetUserData(node)
    /\ flag' = Unwritten
    /\ UNCHANGED heap

Next ==
  \/ Call_mxmlGetCDATA
  \/ Call_mxmlGetCustom
  \/ Call_mxmlGetElement
  \/ Call_mxmlGetFirstChild
  \/ Call_mxmlGetInteger
  \/ Call_mxmlGetLastChild
  \/ Call_mxmlGetNextSibling
  \/ Call_mxmlGetOpaque
  \/ Call_mxmlGetParent
  \/ Call_mxmlGetPrevSibling
  \/ Call_mxmlGetReal
  \/ Call_mxmlGetText
  \/ Call_mxmlGetType
  \/ Call_mxmlGetUserData

Spec == Init /\ [][Next]_vars

----------------------------------------------------------------------------
(* Properties *)

Written(v) == [written |-> TRUE, value |-> v]

\* the node the last call was made on
Arg == heap[call.node]

\* the first child of the node the last call was made on
ArgChild == heap[Arg.child]

DelegatingKinds == {MXML_TYPE_INTEGER, MXML_TYPE_REAL, MXML_TYPE_OPAQUE,
                    MXML_TYPE_TEXT, MXML_TYPE_CUSTOM}

GetterOf(K) ==
  CASE K = MXML_TYPE_INTEGER -> "mxmlGetInteger"
    [] K = MXML_TYPE_REAL    -> "mxmlGetReal"
    [] K = MXML_TYPE_OPAQUE  -> "mxmlGetOpaque"
    [] K = MXML_TYPE_TEXT    -> "mxmlGetText"
    [] K = MXML_TYPE_CUSTOM  -> "mxmlGetCustom"
    [] K = MXML_TYPE_ELEMENT -> "mxmlGetElement"

\* what the getter of kind K gives for node n
Get(K, n) ==
  CASE K = MXML_TYPE_INTEGER -> mxmlGetInteger(n)
    [] K = MXML_TYPE_REAL    -> mxmlGetReal(n)
    [] K = MXML_TYPE_OPAQUE  -> mxmlGetOpaque(n)
    [] K = MXML_TYPE_TEXT    -> mxmlGetText(n, FALSE, Unwritten).ret
    [] K = MXML_TYPE_CUSTOM  -> mxmlGetCustom(n)
    [] K = MXML_TYPE_ELEMENT -> mxmlGetElement(n)

\* the payload stored in a node record r of kind K, as its getter reports it
Stored(K, r) ==
  CASE K = MXML_TYPE_INTEGER -> r.value.integer
    [] K = MXML_TYPE_REAL    -> r.value.real
    [] K = MXML_TYPE_OPAQUE  -> r.value.opaque
    [] K = MXML_TYPE_TEXT    -> r.value.text.string
    [] K = MXML_TYPE_CUSTOM  -> r.value.custom.data
    [] K = MXML_TYPE_ELEMENT -> r.value.element.name

\* the documented default of the getter of kind K
Default(K) ==
  CASE K = MXML_TYPE_INTEGER -> 0
    [] K = MXML_TYPE_REAL    -> 0
    [] K = MXML_TYPE_OPAQUE  -> NullStr
    [] K = MXML_TYPE_TEXT    -> NullStr
    [] K = MXML_TYPE_CUSTOM  -> NULL
    [] K = MXML_TYPE_ELEMENT -> NullStr

\* C1: called with a NULL node, every accessor returns its documented
\* default: 0 for mxmlGetInteger and mxmlGetReal, NULL for the string, custom,
\* user data and node getters, MXML_TYPE_IGNORE for mxmlGetType.
C1_NullDefaults ==
  (call.op # "none" /\ call.node = NULL) =>
    CASE call.op = "mxmlGetInteger" -> ret = 0
      [] call.op = "mxmlGetReal" -> ret = 0
      [] call.op \in {"mxmlGetOpaque", "mxmlGetElement", "mxmlGetCDATA",
                      "mxmlGetText"} -> ret = NullStr
      [] call.op \in {"mxmlGetCustom", "mxmlGetUserData"} -> ret = NULL
      [] call.op \in {"mxmlGetParent", "mxmlGetNextSibling",
                      "mxmlGetPrevSibling", "mxmlGetFirstChild",
                      "mxmlGetLastChild"} -> ret = NULL
      [] call.op = "mxmlGetType" -> ret = MXML_TYPE_IGNORE

C1_Witness ==
  call.op = "mxmlGetType" /\ call.node = NULL /\ ret = MXML_TYPE_IGNORE

\* C2: the getter of kind K called on a node of kind K returns that node's
\* own payload (for Text the string and the flag), whatever its child,
\* sibling and parent fields hold.
C2_OwnPayload ==
  \A K \in DelegatingKinds \cup {MXML_TYPE_ELEMENT} :
    (call.op = GetterOf(K) /\ call.node # NULL /\ Arg.type = K) =>
      /\ ret = Stored(K, Arg)
      /\ (K = MXML_TYPE_TEXT /\ call.whitespace) =>
           flag = Written(Arg.value.text.whitespace)

\* an Opaque node over an Opaque first child with another string
C2_Witness ==
  /\ call.op = "mxmlGetOpaque" /\ call.node # NULL
  /\ Arg.type = MXML_TYPE_OPAQUE /\ Arg.parent # NULL /\ Arg.child # NULL
  /\ ArgChild.type = MXML_TYPE_OPAQUE
  /\ ArgChild.value.opaque # Arg.value.opaque
  /\ ret = Arg.value.opaque

\* C3: for an Element whose first child has kind K, the getter of K returns
\* what it returns for the first child, the child's payload (for Text the
\* string and the flag), for each of Integer, Real, Opaque, Text, Custom.
C3_Delegation ==
  \A K \in DelegatingKinds :
    (/\ call.op = GetterOf(K) /\ call.node # NULL
     /\ Arg.type = MXML_TYPE_ELEMENT /\ Arg.child # NULL
     /\ ArgChild.type = K) =>
      /\ ret = Get(K, Arg.child)
      /\ ret = Stored(K, ArgChild)
      /\ (K = MXML_TYPE_TEXT /\ call.whitespace) =>
           /\ flag = Written(ArgChild.value.text.whitespace)
           /\ flag = mxmlGetText(Arg.child, TRUE, Unwritten).flag

\* an Element whose first and last child are Custom nodes with different data
C3_Witness ==
  /\ call.op = "mxmlGetCustom" /\ call.node # NULL
  /\ Arg.type = MXML_TYPE_ELEMENT /\ Arg.child # NULL
  /\ ArgChild.type = MXML_TYPE_CUSTOM
  /\ Arg.last_child # Arg.child
  /\ heap[Arg.last_child].type = MXML_TYPE_CUSTOM
  /\ ret = ArgChild.value.custom.data /\ ret # NULL

\* C4: for an Element whose first child is missing or is not of kind K, the
\* getter of K returns its default, also when the first child's own first
\* child or a later sibling of the first child has kind K.
C4_OneHop ==
  \A K \in DelegatingKinds :
    (/\ call.op = GetterOf(K) /\ call.node # NULL
     /\ Arg.type = MXML_TYPE_ELEMENT
     /\ (Arg.child = NULL \/ ArgChild.type # K)) =>
      /\ ret = Default(K)
      /\ (K = MXML_TYPE_TEXT /\ call.whitespace) => flag = Written(0)

\* an Element over an Element over an Integer that stores a non-zero value
C4_Witness ==
  /\ call.op = "mxmlGetInteger" /\ call.node # NULL
  /\ Arg.type = MXML_TYPE_ELEMENT /\ Arg.child # NULL
  /\ ArgChild.type = MXML_TYPE_ELEMENT /\ ArgChild.child # NULL
  /\ heap[ArgChild.child].type = MXML_TYPE_INTEGER
  /\ heap[ArgChild.child].value.integer # 0
  /\ ret = 0

\* C5: given a flag to write, mxmlGetText writes it on every path: 0 for a
\* NULL node and when neither the node nor its Element first child is Text,
\* the node's flag for a Text node, the first child's flag when delegating.
C5_FlagWritten ==
  (call.op = "mxmlGetText" /\ call.whitespace) =>
    /\ flag.written
    /\ flag.value =
         IF call.node = NULL THEN 0
         ELSE IF Arg.type = MXML_TYPE_TEXT THEN Arg.value.text.whitespace
         ELSE IF Arg.type = MXML_TYPE_ELEMENT /\ Arg.child # NULL
                 /\ ArgChild.type = MXML_TYPE_TEXT
         THEN ArgChild.value.text.whitespace
         ELSE 0

\* the mismatch path: an Integer node
C5_Witness ==
  /\ call.op = "mxmlGetText" /\ call.whitespace /\ call.node # NULL
  /\ Arg.type = MXML_TYPE_INTEGER
  /\ flag = Written(0) /\ ret = NullStr

CDATALen == Len(CDATAMarker.str)

\* the node is an Element whose name starts with the 8 characters ![CDATA[
IsCDATA(n) ==
  /\ n # NULL
  /\ heap[n].type = MXML_TYPE_ELEMENT
  /\ Len(heap[n].value.element.name.str) >= CDATALen
  /\ SubSeq(heap[n].value.element.name.str, 1, CDATALen) = CDATAMarker.str

\* C6: mxmlGetCDATA returns the element name without its first 8 characters
\* exactly when the node is an Element whose name begins with ![CDATA[, and
\* NULL for every other node.
C6_CDATA ==
  call.op = "mxmlGetCDATA" =>
    IF IsCDATA(call.node)
    THEN ret = Str(SubSeq(Arg.value.element.name.str, CDATALen + 1,
                          Len(Arg.value.element.name.str)))
    ELSE ret = NullStr

\* a name that differs from the marker only in its eighth character
C6_Witness ==
  /\ call.op = "mxmlGetCDATA" /\ call.node # NULL
  /\ Arg.type = MXML_TYPE_ELEMENT
  /\ Len(Arg.value.element.name.str) >= CDATALen
  /\ SubSeq(Arg.value.element.name.str, 1, CDATALen - 1)
       = SubSeq(CDATAMarker.str, 1, CDATALen - 1)
  /\ Arg.value.element.name.str[CDATALen] # CDATAMarker.str[CDATALen]
  /\ ret = NullStr

\* C7: mxmlGetElement returns the name of an Element node and NULL for every
\* other node, also when that node's parent or first child is an Element.
C7_ElementOnly ==
  call.op = "mxmlGetElement" =>
    IF call.node # NULL /\ Arg.type = MXML_TYPE_ELEMENT
    THEN ret = Arg.value.element.name
    ELSE ret = NullStr

\* a node that is no Element between an Element parent and an Element child
C7_Witness ==
  /\ call.op = "mxmlGetElement" /\ call.node # NULL
  /\ Arg.type # MXML_TYPE_ELEMENT
  /\ Arg.parent # NULL /\ heap[Arg.parent].type = MXML_TYPE_ELEMENT
  /\ Arg.child # NULL /\ ArgChild.type = MXML_TYPE_ELEMENT
  /\ ret = NullStr

\* C8: mxmlGetFirstChild and mxmlGetLastChild return the child and last_child
\* fields of an Element node, NULL for every node that is no Element whatever
\* those fields hold, and NULL for an Element without children.
C8_ChildrenOfElements ==
  (call.op \in {"mxmlGetFirstChild", "mxmlGetLastChild"} /\ call.node # NULL) =>
    /\ Arg.type = MXML_TYPE_ELEMENT =>
         ret = IF call.op = "mxmlGetFirstChild" THEN Arg.child
               ELSE Arg.last_child
    /\ Arg.type # MXML_TYPE_ELEMENT => ret = NULL
    /\ {c \in Nodes : heap[c].parent = call.node} = {} => ret = NULL

\* a node that is no Element and has a child
C8_Witness ==
  /\ call.op = "mxmlGetFirstChild" /\ call.node # NULL
  /\ Arg.type # MXML_TYPE_ELEMENT /\ Arg.child # NULL
  /\ ret = NULL

\* C9: no accessor changes a node, and a call repeated on the unchanged
\* tree returns what it returned before.
C9_PureRead ==
  [][/\ heap' = heap
     /\ call' = call => (ret' = ret /\ flag' = flag)]_vars

\* mxmlGetText has reported the flag of a Text node that stores 1
C9_Witness ==
  /\ call.op = "mxmlGetText" /\ call.whitespace /\ call.node # NULL
  /\ Arg.type = MXML_TYPE_TEXT /\ Arg.value.text.whitespace = 1
  /\ flag = Written(1)

\* node n is of kind K or an Element whose first child is of kind K
ResolvesTo(n, K) ==
  \/ heap[n].type = K
  \/ /\ heap[n].type = MXML_TYPE_ELEMENT
     /\ heap[n].child # NULL
     /\ heap[heap[n].child].type = K

\* C10: for one node at most one of the Integer, Real, Opaque, Text and
\* Custom getters resolves to a stored payload; the getters of the other
\* four kinds return their defaults for that node.
C10_Exclusive ==
  \A n \in Nodes :
    /\ Cardinality({K \in DelegatingKinds : ResolvesTo(n, K)}) <= 1
    /\ \A K \in DelegatingKinds, J \in DelegatingKinds :
         (ResolvesTo(n, K) /\ J # K) =>
           /\ Get(J, n) = Default(J)
           /\ J = MXML_TYPE_TEXT =>
                mxmlGetText(n, TRUE, Unwritten).flag = Written(0)
           /\ (call.op = GetterOf(J) /\ call.node = n) => ret = Default(J)

\* mxmlGetReal called on an Integer node that stores a non-zero value
C10_Witness ==
  /\ call.op = "mxmlGetReal" /\ call.node # NULL
  /\ Arg.type = MXML_TYPE_INTEGER /\ Arg.value.integer # 0
  /\ mxmlGetInteger(call.node) = Arg.value.integer
  /\ ret = 0

====
